---- MODULE Spec2Model ----
(***************************************************************************)
(* date-range-utils: the date generator, the month grouping, the week-     *)
(* number decorator and the DateRange pipeline of src/index.ts, over       *)
(* bounded ranges and bounded sequences of dated records.                  *)
(*                                                                         *)
(* A Date is an instant counted in ticks since 1970-01-01 00:00 local time  *)
(* (a Thursday), TicksPerDay ticks to the day; months are 0-based as in    *)
(* JavaScript.                                                             *)
(***************************************************************************)
EXTENDS Integers, Sequences, FiniteSets, TLC

\* ------------------------------------------------------------------ bounds

\* Longest input sequence handed to decorate or group.
MaxLen == 3

\* The arguments of generate and of the DateRange constructor lie within
\* MaxDays days after 30 Nov 2023.
MaxDays == 4

\* The resolution of the time of day: a calendar day holds the instants
\* day * TicksPerDay (midnight) .. day * TicksPerDay + TicksPerDay - 1.
TicksPerDay == 2

\* ------------------------------------------------- calendar (Date, date-fns)

\* undefined where a Date is expected (the date of an element that has none):
\* a value apart from every instant, all of which are positive here.
noDate == 0 - 1

\* The number NaN, apart from every week number and every month.
NaN == 0 - 2

\* a === b on numbers: NaN is equal to nothing, itself included.
strictEquals(a, b) == a # NaN /\ b # NaN /\ a = b

\* A pass of a loop works on the state its predecessor has left: the state is
\* worked out here, pass by pass, rather than all at once when the loop is
\* over.  Always true.
evaluated(st) == st = st

\* dateInfo.date: undefined for an element without that property.
dateOf(dateInfo) == IF "date" \in DOMAIN dateInfo THEN dateInfo.date ELSE noDate

\* The local calendar day of a Date, in days since 1970-01-01.
dayOf(date) == date \div TicksPerDay

\* date-fns startOfDay: the same calendar day at 00:00.
startOfDay(date) == dayOf(date) * TicksPerDay

\* date-fns addDays: the same time of day, amount calendar days later.
addDays(date, amount) == date + amount * TicksPerDay

\* date-fns differenceInCalendarDays: calendar days from dateRight to dateLeft,
\* the times of day ignored.
differenceInCalendarDays(dateLeft, dateRight) == dayOf(dateLeft) - dayOf(dateRight)

\* new Date(year, month, day): midnight of a civil date, month 0-based.
NewDate(year, month, day) ==
  LET m   == month + 1
      y   == IF m <= 2 THEN year - 1 ELSE year
      era == y \div 400
      yoe == y - era * 400
      mp  == IF m > 2 THEN m - 3 ELSE m + 9
      doy == (153 * mp + 2) \div 5 + day - 1
      doe == yoe * 365 + yoe \div 4 - yoe \div 100 + doy
  IN  (era * 146097 + doe - 719468) * TicksPerDay

\* The civil date of a Date: [year, month (0-based), day].
Civil(date) ==
  LET z   == dayOf(date) + 719468
      era == z \div 146097
      doe == z - era * 146097
      yoe == (doe - doe \div 1460 + doe \div 36524 - doe \div 146096) \div 365
      doy == doe - (365 * yoe + yoe \div 4 - yoe \div 100)
      mp  == (5 * doy + 2) \div 153
      d   == doy - (153 * mp + 2) \div 5 + 1
      m   == IF mp < 10 THEN mp + 3 ELSE mp - 9
  IN  [year |-> yoe + era * 400 + (IF m <= 2 THEN 1 ELSE 0), month |-> m - 1, day |-> d]

\* date.getFullYear()
getFullYear(date) == Civil(date).year

\* getMonth(date) / date.getMonth(): 0 = January .. 11 = December; date-fns
\* getMonth gives NaN for undefined (date.getMonth() raises there, see
\* isMultiMonthThrows).
getMonth(date) == IF date = noDate THEN NaN ELSE Civil(date).month

\* date.getDay(): 0 = Sunday .. 6 = Saturday.
getDay(date) == (dayOf(date) + 4) % 7

\* date-fns startOfISOWeek: 00:00 of the Monday on or before the date.
startOfISOWeek(date) ==
  LET day  == getDay(date)
      diff == (IF day < 1 THEN 7 ELSE 0) + day - 1
  IN  addDays(startOfDay(date), 0 - diff)

\* date-fns getISOWeekYear: the ISO week-numbering year of the date.
getISOWeekYear(date) ==
  LET year            == getFullYear(date)
      startOfNextYear == startOfISOWeek(NewDate(year + 1, 0, 4))
      startOfThisYear == startOfISOWeek(NewDate(year, 0, 4))
  IN  IF date >= startOfNextYear THEN year + 1
      ELSE IF date >= startOfThisYear THEN year
      ELSE year - 1

\* date-fns startOfISOWeekYear: the Monday of ISO week 1 of the date's ISO year.
startOfISOWeekYear(date) == startOfISOWeek(NewDate(getISOWeekYear(date), 0, 4))

\* date-fns getISOWeek: the ISO-8601 week number (1..53) of the date, NaN for
\* undefined.
getISOWeek(date) ==
  IF date = noDate THEN NaN
  ELSE (startOfISOWeek(date) - startOfISOWeekYear(date)) \div (7 * TicksPerDay) + 1

\* ------------------------------------------------------------ data model

\* The calendar days the inputs are drawn from: the turn of 2022/2023 (Sunday
\* 1 Jan 2023 is in ISO week 52, Monday 2 Jan in week 1), a week that crosses
\* from November into December 2023, and the turn of 2023/2024.
Dates ==
  { NewDate(2023, 0, 1),  NewDate(2023, 0, 2),   NewDate(2023, 0, 3),
    NewDate(2023, 10, 30), NewDate(2023, 11, 1),
    NewDate(2023, 11, 25), NewDate(2023, 11, 31),
    NewDate(2024, 0, 1) }

\* The values of the caller-defined extra field of a record.
Data == {"a", "b"}

\* The days for which the inputs also hold a record with the second payload.
PayloadDates == { NewDate(2023, 0, 2), NewDate(2023, 11, 31) }

\* T & { date: Date }: a dated record with a caller-defined extra field.  The
\* payload is never read by the code, so it is varied on two days only.
Records ==
  { r \in [date : Dates, data : Data] : r.data = "a" \/ r.date \in PayloadDates }

\* The value of a property that was never set.
undefined == "undefined"

\* The inputs of decorate: every sequence of at most MaxLen records, in any order.
Inputs == UNION { [1..n -> Records] : n \in 0..MaxLen }

\* ------------------------------------------- WeekNumberDecorator.decorate

\* Mutant: the test of the week is inverted.
collectDate_inverted(weekDates, dateInfo, currentWeek) ==
  IF ~strictEquals(getISOWeek(dateOf(dateInfo)), currentWeek)
  THEN Append(weekDates, dateOf(dateInfo))
  ELSE weekDates

\* if (dateWeek === currentWeek) weekDates.push(dateInfo.date)
collectDate(weekDates, dateInfo, currentWeek) ==
  IF strictEquals(getISOWeek(dateOf(dateInfo)), currentWeek)
  THEN Append(weekDates, dateOf(dateInfo))
  ELSE weekDates

\* Mutant: the record is rebuilt from its date, losing the caller's fields.
pushDate_dateOnly(result, dateInfo) == Append(result, [date |-> dateInfo.date])

\* result.push(dateInfo)
pushDate(result, dateInfo) == Append(result, dateInfo)

\* index === dates.length - 1 (index is 1-based here)
isLastDate(dates, index) == index = Len(dates)

\* Mutant: the Date objects are compared instead of their ISO week numbers.
isWeekChanging_byDate(dates, index, currentWeek) ==
  /\ index < Len(dates)
  /\ dateOf(dates[index + 1]) # dateOf(dates[index])

\* Mutant: the current record is inspected instead of the next one.
isWeekChanging_offByOne(dates, index, currentWeek) ==
  /\ index < Len(dates)
  /\ ~strictEquals(getISOWeek(dateOf(dates[index])), currentWeek)

\* Mutant: a week is told apart by its ISO year too.
isWeekChanging_withYear(dates, index, currentWeek) ==
  /\ index < Len(dates)
  /\ \/ ~strictEquals(getISOWeek(dateOf(dates[index + 1])), currentWeek)
     \/ getISOWeekYear(dateOf(dates[index + 1])) # getISOWeekYear(dateOf(dates[index]))

\* index < dates.length - 1 && getISOWeek(dates[index + 1].date) !== currentWeek
isWeekChanging(dates, index, currentWeek) ==
  /\ index < Len(dates)
  /\ ~strictEquals(getISOWeek(dateOf(dates[index + 1])), currentWeek)

\* Mutant: the first date of the week is used for the marker.
lastDateOfWeek_first(weekDates) ==
  IF Len(weekDates) = 0 THEN noDate ELSE weekDates[1]

\* weekDates[weekDates.length - 1]
lastDateOfWeek(weekDates) ==
  IF Len(weekDates) = 0 THEN noDate ELSE weekDates[Len(weekDates)]

\* The some() below raises a TypeError: it visits the dates in order until one
\* differs in month from the last, and reads getMonth of undefined on the way,
\* be it the visited date or lastDateOfWeek.
isMultiMonthThrows(weekDates) ==
  \E i \in 1..Len(weekDates) :
    /\ \A j \in 1..(i - 1) :
         /\ weekDates[j] # noDate
         /\ lastDateOfWeek(weekDates) # noDate
         /\ getMonth(weekDates[j]) = getMonth(lastDateOfWeek(weekDates))
    /\ weekDates[i] = noDate \/ lastDateOfWeek(weekDates) = noDate

\* Mutant: every() in place of some().
isMultiMonth_every(weekDates) ==
  \A i \in 1..Len(weekDates) :
    getMonth(weekDates[i]) # getMonth(lastDateOfWeek(weekDates))

\* weekDates.some((date) => date.getMonth() !== lastDateOfWeek.getMonth())
isMultiMonth(weekDates) ==
  \E i \in 1..Len(weekDates) :
    getMonth(weekDates[i]) # getMonth(lastDateOfWeek(weekDates))

\* The marker object pushed at the end of a week run.
weekMarker(weekDates, currentWeek) ==
  [ isWeekNumberDecoration |-> TRUE,
    weekNumber             |-> currentWeek,
    date                   |-> lastDateOfWeek(weekDates),
    isMultiMonth           |-> isMultiMonth(weekDates) ]

\* Mutant: currentWeek is not advanced when a run is closed.
resetCurrentWeek_stale(dates, index, currentWeek) == currentWeek

\* currentWeek after the reset: the week of the next record, if there is one.
resetCurrentWeek(dates, index, currentWeek) ==
  IF ~isLastDate(dates, index)
  THEN getISOWeek(dateOf(dates[index + 1]))
  ELSE currentWeek

\* weekDates after the reset: emptied, then seeded with the next record's date.
resetWeekDates(dates, index) ==
  IF ~isLastDate(dates, index) THEN << dateOf(dates[index + 1]) >> ELSE << >>

\* One call of the forEach callback on dates[index]; st holds the closure's
\* result, weekDates and currentWeek.
forEachBody(st, dates, index) ==
  LET dateInfo == dates[index]
      collected == collectDate(st.weekDates, dateInfo, st.currentWeek)
      pushed    == pushDate(st.result, dateInfo)
  IN  IF isWeekChanging(dates, index, st.currentWeek) \/ isLastDate(dates, index)
      THEN [ result      |-> Append(pushed, weekMarker(collected, st.currentWeek)),
             weekDates   |-> resetWeekDates(dates, index),
             currentWeek |-> resetCurrentWeek(dates, index, st.currentWeek) ]
      ELSE [ result      |-> pushed,
             weekDates   |-> collected,
             currentWeek |-> st.currentWeek ]

\* dates.forEach(...) from position index to the end.
RECURSIVE forEach(_, _, _)
forEach(st, dates, index) ==
  IF index > Len(dates) \/ ~evaluated(st) THEN st
  ELSE forEach(forEachBody(st, dates, index), dates, index + 1)

\* Mutant: the guard for an empty input is missing.
returnsEmpty_never(dates) == FALSE

\* if (dates.length === 0) return [];
returnsEmpty(dates) == Len(dates) = 0

\* The error raised by reading a property of undefined.
TypeError == [name |-> "TypeError"]

\* The forEach callback on dates[index] raises: it closes a run and the some()
\* over the collected weekDates reads getMonth of undefined.
forEachBodyThrows(st, dates, index) ==
  /\ isWeekChanging(dates, index, st.currentWeek) \/ isLastDate(dates, index)
  /\ isMultiMonthThrows(collectDate(st.weekDates, dates[index], st.currentWeek))

\* dates.forEach(...) raises at position index or later.
RECURSIVE forEachThrows(_, _, _)
forEachThrows(st, dates, index) ==
  /\ index <= Len(dates)
  /\ \/ forEachBodyThrows(st, dates, index)
     \/ forEachThrows(forEachBody(st, dates, index), dates, index + 1)

\* decorate raises a TypeError where it reads a property of undefined: past the
\* guard, dates[0].date of an empty array, and getMonth inside some().  Its
\* other reads cannot: dates[index + 1] is read only under index < dates.length
\* - 1 or !isLastDate.
decorateThrows(dates) ==
  /\ ~returnsEmpty(dates)
  /\ \/ Len(dates) = 0
     \/ forEachThrows([ result      |-> << >>,
                        weekDates   |-> << >>,
                        currentWeek |-> getISOWeek(dateOf(dates[1])) ],
                      dates, 1)

\* WeekNumberDecorator.decorate(dates)
decorate(dates) ==
  IF returnsEmpty(dates) THEN << >>
  ELSE forEach([ result      |-> << >>,
                 weekDates   |-> << >>,
                 currentWeek |-> getISOWeek(dateOf(dates[1])) ],
               dates, 1).result

\* ------------------------------- StandardDateGenerationStrategy.generate

\* The factories a caller may construct the strategy with: "a" and "b" tag
\* every record with that payload, "byDay" tags weekend days "b" and the other
\* days "a".
Factories == {"a", "b", "byDay"}

\* this.dateFactory(date): the record the factory returns for a date.
applyFactory(factory, date) ==
  [ date |-> date,
    data |-> IF factory = "byDay"
             THEN (IF getDay(date) \in {0, 6} THEN "b" ELSE "a")
             ELSE factory ]

\* Mutant: the closing day is not counted.
totalDays_exclusive(start, end) == differenceInCalendarDays(end, start)

\* Mutant: the days are counted whichever of the two dates comes first.
totalDays_absolute(start, end) ==
  IF differenceInCalendarDays(end, start) < 0
  THEN differenceInCalendarDays(start, end) + 1
  ELSE differenceInCalendarDays(end, start) + 1

\* const totalDays = differenceInCalendarDays(endDate, startDate) + 1
totalDays(start, end) == differenceInCalendarDays(end, start) + 1

\* const currentDate = addDays(startDate, i)
currentDate(start, i) == addDays(start, i)

\* Mutant: the record is put in front of the ones already generated.
pushRecord_front(generated, record) == << record >> \o generated

\* dates.push(record)
pushRecord(generated, record) == Append(generated, record)

\* One pass of the loop body for counter i; st holds the dates generated and
\* the factory invocations so far.
generateBody(st, factory, start, i) ==
  [ dates |-> pushRecord(st.dates, applyFactory(factory, currentDate(start, i))),
    calls |-> Append(st.calls, currentDate(start, i)) ]

\* for (let i = 0; i < totalDays; i++) { ... } from counter i on.
RECURSIVE generateLoop(_, _, _, _, _)
generateLoop(st, factory, start, i, total) ==
  IF i < total /\ evaluated(st)
  THEN generateLoop(generateBody(st, factory, start, i), factory, start, i + 1, total)
  ELSE st

\* A run of generate: the dates returned and the factory invocations made.
generateRun(factory, start, end) ==
  generateLoop([dates |-> << >>, calls |-> << >>], factory, start, 0,
               totalDays(start, end))

\* StandardDateGenerationStrategy.generate(startDate, endDate)
generate(factory, start, end) == generateRun(factory, start, end).dates

\* --------------------------------------------- MonthGroupingStrategy.group

\* The long month names of the default locale, taken to be English as in the
\* tests.
MonthNames ==
  << "January", "February", "March", "April", "May", "June", "July",
     "August", "September", "October", "November", "December" >>

\* date.toLocaleString("default", { month: "long" })
monthTitle(date) == MonthNames[getMonth(date) + 1]

\* Mutant: the month is told apart by its year too.
monthOf_withYear(date) == getFullYear(date) * 12 + getMonth(date)

\* const month = getMonth(date)
monthOf(date) == getMonth(date)

\* Mutant: the bucket is numbered from zero.
bucketNumber_zeroBased(month) == month

\* number: month + 1
bucketNumber(month) == month + 1

\* monthsMap.has(month); the Map is a sequence of entries [key, value] in
\* insertion order.
mapHas(monthsMap, month) == \E i \in 1..Len(monthsMap) : monthsMap[i].key = month

\* monthsMap.set(month, { title, number, data: [] }) for a month not yet present.
mapSetNew(monthsMap, month, date) ==
  Append(monthsMap,
         [ key   |-> month,
           value |-> [ title  |-> monthTitle(date),
                       number |-> bucketNumber(month),
                       data   |-> << >> ] ])

\* Mutant: the record is put in front of the bucket's data.
pushData_front(data, dateInfo) == << dateInfo >> \o data

\* monthsMap.get(month)!.data.push(dateInfo), on the bucket's data
pushData(data, dateInfo) == Append(data, dateInfo)

\* The forEach callback of group raises a TypeError: the element opens a
\* bucket and date.toLocaleString is read of undefined.
groupBodyThrows(monthsMap, dateInfo) ==
  /\ ~mapHas(monthsMap, monthOf(dateOf(dateInfo)))
  /\ dateOf(dateInfo) = noDate

\* The forEach callback of group on one record.
groupBody(monthsMap, dateInfo) ==
  LET month  == monthOf(dateOf(dateInfo))
      withIt == IF ~mapHas(monthsMap, month)
                THEN mapSetNew(monthsMap, month, dateOf(dateInfo))
                ELSE monthsMap
  IN  [ i \in 1..Len(withIt) |->
          IF withIt[i].key = month
          THEN [ withIt[i] EXCEPT !.value.data = pushData(@, dateInfo) ]
          ELSE withIt[i] ]

\* dates.forEach(...) of group from position index to the end.
RECURSIVE groupForEach(_, _, _)
groupForEach(monthsMap, dates, index) ==
  IF index > Len(dates) \/ ~evaluated(monthsMap) THEN monthsMap
  ELSE groupForEach(groupBody(monthsMap, dates[index]), dates, index + 1)

\* dates.forEach(...) of group raises at position index or later.
RECURSIVE groupForEachThrows(_, _, _)
groupForEachThrows(monthsMap, dates, index) ==
  /\ index <= Len(dates)
  /\ \/ groupBodyThrows(monthsMap, dates[index])
     \/ groupForEachThrows(groupBody(monthsMap, dates[index]), dates, index + 1)

\* group raises a TypeError on an element that has no date.
groupThrows(dates) == groupForEachThrows(<< >>, dates, 1)

\* Array.from(monthsMap.values())
mapValues(monthsMap) == [ i \in 1..Len(monthsMap) |-> monthsMap[i].value ]

\* One step of the stable sort: bucket goes after every sorted bucket whose
\* number is not greater.
RECURSIVE insertByNumber(_, _)
insertByNumber(sorted, bucket) ==
  IF Len(sorted) = 0 THEN << bucket >>
  ELSE IF sorted[Len(sorted)].number - bucket.number <= 0
       THEN Append(sorted, bucket)
       ELSE Append(insertByNumber(SubSeq(sorted, 1, Len(sorted) - 1), bucket),
                   sorted[Len(sorted)])

RECURSIVE sortFrom(_, _, _)
sortFrom(sorted, buckets, index) ==
  IF index > Len(buckets) THEN sorted
  ELSE sortFrom(insertByNumber(sorted, buckets[index]), buckets, index + 1)

\* Mutant: the buckets are returned in the order the months were first seen.
sortByNumber_none(buckets) == buckets

\* .sort((a, b) => a.number - b.number)
sortByNumber(buckets) == sortFrom(<< >>, buckets, 1)

\* MonthGroupingStrategy.group(dates)
group(dates) == sortByNumber(mapValues(groupForEach(<< >>, dates, 1)))

\* ------------------------------------------------- DateRange constructor

\* Mutant: the dates are compared as given, times of day included.
normalize_not(date) == date

\* const start = startOfDay(this.startDate); const end = startOfDay(this.endDate)
normalize(date) == startOfDay(date)

\* if (start > end)
invalidRange(start, end) == start > end

\* Mutant: the message names the dates in the wrong order.
invalidRangeError_swapped(start, end) ==
  [ name |-> "Error", greater |-> end, lesser |-> start ]

\* new Error(`... ${start.toLocaleString()} is greater than
\* ${end.toLocaleString()}.`): a plain Error whose message names both dates.
invalidRangeError(start, end) ==
  [ name |-> "Error", greater |-> start, lesser |-> end ]

\* ---------------------------------------------------------- state machine

\* dates:       the argument of the pending or finished decorate or group call;
\*              the working sequence of a DateRange
\* result:      what the call returned (empty until it returns)
\* pc:          "ready", not yet called; "returned", the call has returned;
\*              "constructed", the constructor has completed and the last call
\*              on the DateRange, if any, has returned; "raised", the last call
\*              on the DateRange has raised error, which its caller has
\*              caught; "threw", the call has raised error
\* startDate:   the start argument of generate; the startDate of a DateRange
\* endDate:     the end argument of generate; the endDate of a DateRange
\* dateFactory: the factory given to StandardDateGenerationStrategy
\* calls:       the dates the factory has been invoked with, in order
\* error:       the error raised, once pc = "threw"
\* args:        the start and end the DateRange constructor was called with
\* alias:       the array a caller got from getDates (held in result) is the
\*              very array the DateRange works on
\* history:     the methods called on the DateRange and the caller's changes to
\*              the array it got, in order
VARIABLES dates, result, pc, startDate, endDate, dateFactory, calls, error, args,
          alias, history

vars ==
  << dates, result, pc, startDate, endDate, dateFactory, calls, error, args,
     alias, history >>

\* A direct call of decorate involves no range, no factory and, so far, no error.
Init ==
  /\ dates \in Inputs
  /\ result = << >>
  /\ pc = "ready"
  /\ startDate = undefined
  /\ endDate = undefined
  /\ dateFactory = undefined
  /\ calls = << >>
  /\ error = undefined
  /\ args = undefined
  /\ alias = FALSE
  /\ history = << >>

\* A caller invokes decorate on the input and receives the result or the error.
Decorate ==
  /\ pc = "ready"
  /\ IF decorateThrows(dates)
     THEN /\ pc' = "threw"
          /\ error' = TypeError
          /\ UNCHANGED result
     ELSE /\ pc' = "returned"
          /\ result' = decorate(dates)
          /\ UNCHANGED error
  /\ UNCHANGED << dates, startDate, endDate, dateFactory, calls, args, alias, history >>

Next == Decorate

Spec == Init /\ [][Next]_vars

\* The instants the arguments of generate and of the DateRange constructor are
\* drawn from: every time of day of Thursday 30 Nov 2023 and of the MaxDays days
\* after it (ISO week 48 runs into December and ends on Sunday 3 Dec).
RangeInstants ==
  { addDays(NewDate(2023, 10, 30), d) + t : d \in 0..MaxDays, t \in 0..(TicksPerDay - 1) }

\* A strategy has been constructed with a factory; generate is about to be
\* called with a start and an end in either order.
InitGenerate ==
  /\ startDate \in RangeInstants
  /\ endDate \in RangeInstants
  /\ dateFactory \in Factories
  /\ dates = << >>
  /\ result = << >>
  /\ pc = "ready"
  /\ calls = << >>
  /\ error = undefined
  /\ args = undefined
  /\ alias = FALSE
  /\ history = << >>

\* A caller invokes generate and receives the records; the factory has been
\* invoked along the way.
Generate ==
  /\ pc = "ready"
  /\ result' = generate(dateFactory, startDate, endDate)
  /\ calls' = generateRun(dateFactory, startDate, endDate).calls
  /\ pc' = "returned"
  /\ UNCHANGED << dates, startDate, endDate, dateFactory, error, args, alias, history >>

NextGenerate == Generate

SpecGenerate == InitGenerate /\ [][NextGenerate]_vars

\* group is about to be called on a sequence of records in any order.
InitGroup ==
  /\ dates \in Inputs
  /\ result = << >>
  /\ pc = "ready"
  /\ startDate = undefined
  /\ endDate = undefined
  /\ dateFactory = undefined
  /\ calls = << >>
  /\ error = undefined
  /\ args = undefined
  /\ alias = FALSE
  /\ history = << >>

\* A caller invokes group on the input and receives the buckets.
Group ==
  /\ pc = "ready"
  /\ result' = group(dates)
  /\ pc' = "returned"
  /\ UNCHANGED << dates, startDate, endDate, dateFactory, calls, error, args,
                  alias, history >>

NextGroup == Group

SpecGroup == InitGroup /\ [][NextGroup]_vars

\* new DateRange(start, end) has been entered: the parameter properties hold
\* the arguments as given and the working sequence is empty.
InitRange ==
  /\ args \in [start : RangeInstants, end : RangeInstants]
  /\ startDate = args.start
  /\ endDate = args.end
  /\ dates = << >>
  /\ result = << >>
  /\ pc = "ready"
  /\ dateFactory = undefined
  /\ calls = << >>
  /\ error = undefined
  /\ alias = FALSE
  /\ history = << >>

\* The body of the DateRange constructor.
Construct ==
  /\ pc = "ready"
  /\ LET start == normalize(startDate)
         end   == normalize(endDate)
     IN  IF invalidRange(start, end)
         THEN /\ pc' = "threw"
              /\ error' = invalidRangeError(start, end)
              /\ UNCHANGED << startDate, endDate >>
         ELSE /\ pc' = "constructed"
              /\ startDate' = start
              /\ endDate' = end
              /\ UNCHANGED error
  /\ UNCHANGED << dates, result, dateFactory, calls, args, alias, history >>

NextRange == Construct

SpecRange == InitRange /\ [][NextRange]_vars

\* ------------------------------------------------------ DateRange pipeline

\* The most calls made on one DateRange after its construction, the caller's
\* changes to the array it got counted in.
MaxOps == 4

\* The ranges of the pipeline start and end within MaxSpan days after
\* Saturday 30 Sep 2023: ISO week 39 runs into October and ends on Sunday
\* 1 Oct, week 40 begins on Monday 2 Oct.
MaxSpan == 2

\* The instants the constructor arguments of the pipeline are drawn from: the
\* first and the last instant of each of those days.
PipelineInstants ==
  { addDays(NewDate(2023, 8, 30), d) + t : d \in 0..MaxSpan, t \in {0, TicksPerDay - 1} }

\* new DateRange(start, end) of the pipeline: start and end in either order,
\* and the range of the test 'should group dates by month', 1 Jan to 28 Feb 2023.
PipelineArgs ==
  [start : PipelineInstants, end : PipelineInstants]
    \cup { [start |-> NewDate(2023, 0, 1), end |-> NewDate(2023, 1, 28)] }

\* The factories of the strategies handed to create.
PipelineFactories == {"a", "byDay"}

\* The element a caller appends to the array it got from getDates.
pushed == [date |-> NewDate(2023, 9, 2), data |-> "b"]

\* Mutant: the new sequence is appended to the working sequence.
assignDates_concat(old, new) == old \o new

\* this.dates = ...: the working sequence becomes the new array.
assignDates(old, new) == new

\* return this.dates: the caller receives the array itself, not a copy.
returnsReference == TRUE

\* new DateRange(start, end) has been entered, as in InitRange.
InitPipeline ==
  /\ args \in PipelineArgs
  /\ startDate = args.start
  /\ endDate = args.end
  /\ dates = << >>
  /\ result = << >>
  /\ pc = "ready"
  /\ dateFactory = undefined
  /\ calls = << >>
  /\ error = undefined
  /\ alias = FALSE
  /\ history = << >>

\* The constructor has completed: there is a DateRange.
Constructed == pc \in {"constructed", "raised"}

\* A call on the constructed DateRange can be made.
callable == Constructed /\ Len(history) < MaxOps

\* create(strategy) with a StandardDateGenerationStrategy over factory.
DateRangeCreate(factory) ==
  /\ callable
  /\ dates' = assignDates(dates, generate(factory, startDate, endDate))
  /\ calls' = generateRun(factory, startDate, endDate).calls
  /\ dateFactory' = factory
  /\ alias' = FALSE
  /\ pc' = "constructed"
  /\ error' = undefined
  /\ history' = Append(history, "create")
  /\ UNCHANGED << result, startDate, endDate, args >>

\* apply(decorator) with a WeekNumberDecorator: an error of decorate leaves
\* the DateRange as it was and reaches the caller.
DateRangeApply ==
  /\ callable
  /\ IF decorateThrows(dates)
     THEN /\ pc' = "raised"
          /\ error' = TypeError
          /\ UNCHANGED << dates, alias >>
     ELSE /\ dates' = assignDates(dates, decorate(dates))
          /\ alias' = FALSE
          /\ pc' = "constructed"
          /\ error' = undefined
  /\ history' = Append(history, "apply")
  /\ UNCHANGED << result, startDate, endDate, dateFactory, calls, args >>

\* group(strategy) with a MonthGroupingStrategy: an error of group leaves the
\* DateRange as it was and reaches the caller.
DateRangeGroup ==
  /\ callable
  /\ IF groupThrows(dates)
     THEN /\ pc' = "raised"
          /\ error' = TypeError
          /\ UNCHANGED << dates, alias >>
     ELSE /\ dates' = assignDates(dates, group(dates))
          /\ alias' = FALSE
          /\ pc' = "constructed"
          /\ error' = undefined
  /\ history' = Append(history, "group")
  /\ UNCHANGED << result, startDate, endDate, dateFactory, calls, args >>

\* getDates(): the caller receives this.dates.
DateRangeGetDates ==
  /\ callable
  /\ result' = dates
  /\ alias' = returnsReference
  /\ pc' = "constructed"
  /\ error' = undefined
  /\ history' = Append(history, "getDates")
  /\ UNCHANGED << dates, startDate, endDate, dateFactory, calls, args >>

\* The caller holds an array it got from getDates.
holdsArray == \E i \in 1..Len(history) : history[i] = "getDates"

\* The caller appends an element to the array it got: result.push(pushed).
CallerPush ==
  /\ callable
  /\ holdsArray
  /\ result' = Append(result, pushed)
  /\ dates' = IF alias THEN Append(dates, pushed) ELSE dates
  /\ history' = Append(history, "push")
  /\ pc' = "constructed"
  /\ error' = undefined
  /\ UNCHANGED << startDate, endDate, dateFactory, calls, args, alias >>

\* The caller removes the last element of the array it got: result.pop().
CallerPop ==
  /\ callable
  /\ holdsArray
  /\ Len(result) > 0
  /\ result' = SubSeq(result, 1, Len(result) - 1)
  /\ dates' = IF alias THEN SubSeq(dates, 1, Len(dates) - 1) ELSE dates
  /\ history' = Append(history, "pop")
  /\ pc' = "constructed"
  /\ error' = undefined
  /\ UNCHANGED << startDate, endDate, dateFactory, calls, args, alias >>

NextPipeline ==
  \/ Construct
  \/ \E factory \in PipelineFactories : DateRangeCreate(factory)
  \/ DateRangeApply
  \/ DateRangeGroup
  \/ DateRangeGetDates
  \/ CallerPush
  \/ CallerPop

SpecPipeline == InitPipeline /\ [][NextPipeline]_vars

\* ------------------------------------------------------------- vocabulary

Returned == pc = "returned"

\* A week marker, as opposed to an input record.
isMarker(x) == "isWeekNumberDecoration" \in DOMAIN x

\* The input is in ascending (non-decreasing) date order.
Ascending ==
  \A i \in 1..(Len(dates) - 1) : dates[i].date <= dates[i + 1].date

\* Input position i is the last record of a maximal run of equal ISO week number.
RunEnd(i) ==
  \/ i = Len(dates)
  \/ getISOWeek(dates[i].date) # getISOWeek(dates[i + 1].date)

\* The number of maximal contiguous week runs of the input.
NumRuns == Cardinality({ i \in 1..Len(dates) : RunEnd(i) })

\* The positions of the output holding week markers.
MarkerPos == { p \in 1..Len(result) : isMarker(result[p]) }

\* The number of input records among the first p output elements.
recordsUpTo(p) == Cardinality({ q \in 1..p : ~isMarker(result[q]) })

\* The output position of input record i when every earlier run end is followed
\* by one marker.
outIndex(i) == i + Cardinality({ j \in 1..(i - 1) : RunEnd(j) })

\* From the forEach callback on dates[index] on, with closure state st on its
\* entry: whenever the callback builds a marker, the weekDates it reads are not
\* empty.
RECURSIVE weekDatesFilled(_, _, _)
weekDatesFilled(st, input, index) ==
  IF index > Len(input) THEN TRUE
  ELSE /\ (isWeekChanging(input, index, st.currentWeek) \/ isLastDate(input, index))
            => Len(collectDate(st.weekDates, input[index], st.currentWeek)) > 0
       /\ weekDatesFilled(forEachBody(st, input, index), input, index + 1)

\* The Sunday that ends the ISO week of a date.
endOfISOWeek(date) == addDays(startOfISOWeek(date), 6)

\* The ISO week numbers present in the input.
WeekNumbers == { getISOWeek(dates[i].date) : i \in 1..Len(dates) }

\* The calendar days between the first and the last record of a non-empty input.
Span == differenceInCalendarDays(dates[Len(dates)].date, dates[1].date)

Jan1_2023  == NewDate(2023, 0, 1)
Jan2_2023  == NewDate(2023, 0, 2)
Jan3_2023  == NewDate(2023, 0, 3)
Dec31_2023 == NewDate(2023, 11, 31)
Jan1_2024  == NewDate(2024, 0, 1)

\* ------------------------------------------------------------------ claims

\* C1: for every input in ascending date order, each week marker of the output
\* sits immediately after the last record of its week run and immediately
\* before the first record of the next run (or at the end of the output); no
\* marker stands between two records of the same run.
C1_MarkerPlacement ==
  (Returned /\ Ascending) =>
    \A p \in MarkerPos :
      LET i == recordsUpTo(p)
      IN  /\ p > 1
          /\ i >= 1
          /\ result[p - 1] = dates[i]
          /\ RunEnd(i)
          /\ IF i = Len(dates)
             THEN p = Len(result)
             ELSE p < Len(result) /\ result[p + 1] = dates[i + 1]

\* An ascending input of two runs, one of them with two different days, decorated.
C1_Witness ==
  /\ Returned
  /\ Ascending
  /\ Len(dates) = 3
  /\ NumRuns = 2
  /\ \A i \in 1..2 : dates[i].date < dates[i + 1].date
  /\ Cardinality(MarkerPos) = 2

\* C2: an input of n records forming k maximal contiguous runs of equal ISO week
\* number is decorated into exactly n + k elements, exactly k of them markers.
C2_LengthIsRecordsPlusRuns ==
  Returned =>
    /\ Len(result) = Len(dates) + NumRuns
    /\ Cardinality(MarkerPos) = NumRuns

\* Three records in two runs were decorated into five elements.
C2_Witness ==
  /\ Returned
  /\ Len(dates) = 3
  /\ NumRuns = 2
  /\ Len(result) = 5

\* C3: every marker's weekNumber is the ISO week number of every record of the
\* run it closes: the records between the previous marker (or the start of the
\* output) and the marker; that run is not empty.
C3_MarkerWeekMatchesRun ==
  Returned =>
    \A p \in MarkerPos :
      /\ p > 1
      /\ ~isMarker(result[p - 1])
      /\ \A q \in 1..(p - 1) :
           (\A r \in q..(p - 1) : ~isMarker(result[r]))
             => getISOWeek(result[q].date) = result[p].weekNumber

\* A second marker closes a run of two records of one week.
C3_Witness ==
  /\ Returned
  /\ Len(result) = 5
  /\ isMarker(result[2])
  /\ isMarker(result[5])
  /\ result[3].date # result[4].date
  /\ result[5].weekNumber # result[2].weekNumber

\* C4: every marker's date is the date of the last input record of its week run,
\* the record immediately preceding the marker, also for a run of one record
\* and for runs after the first.
C4_MarkerDateIsLastOfRun ==
  Returned =>
    \A p \in MarkerPos :
      /\ p > 1
      /\ ~isMarker(result[p - 1])
      /\ result[p - 1] = dates[recordsUpTo(p)]
      /\ RunEnd(recordsUpTo(p))
      /\ result[p].date = result[p - 1].date

\* A first run of two different days, then a run of a single record.
C4_Witness ==
  /\ Returned
  /\ Len(dates) = 3
  /\ dates[1].date # dates[2].date
  /\ ~RunEnd(1)
  /\ RunEnd(2)
  /\ isMarker(result[3]) /\ result[3].date = dates[2].date
  /\ isMarker(result[5]) /\ result[5].date = dates[3].date

\* C5: for every input in ascending date order, each marker's date lies in the
\* calendar month of the last day (Sunday) of the ISO week it summarizes.
C5_MarkerInMonthOfWeekEnd ==
  (Returned /\ Ascending) =>
    \A p \in MarkerPos :
      getMonth(result[p].date) = getMonth(endOfISOWeek(result[p - 1].date))

\* C6 as stated: for every input in ascending date order, the number of markers
\* equals the number of distinct ISO week numbers among the input records.
C6_OneMarkerPerWeekNumber ==
  (Returned /\ Ascending) => Cardinality(MarkerPos) = Cardinality(WeekNumbers)

\* C6 amended: for every ascending input whose last date is at most 357 days
\* after its first, the number of markers equals the number of distinct ISO week
\* numbers, and no week number is used by a second run after its first run ended.
C6_OneMarkerPerWeekNumberWithinSpan ==
  (Returned /\ Ascending /\ (Len(dates) = 0 \/ Span <= 357)) =>
    /\ Cardinality(MarkerPos) = Cardinality(WeekNumbers)
    /\ \A i, j \in 1..Len(dates) :
         (i < j /\ getISOWeek(dates[i].date) = getISOWeek(dates[j].date))
           => \A k \in i..j : getISOWeek(dates[k].date) = getISOWeek(dates[i].date)

\* An ascending input spanning exactly 357 days in three runs.
C6_Witness ==
  /\ Returned
  /\ Ascending
  /\ Len(dates) = 3
  /\ Span = 357
  /\ NumRuns = 3
  /\ Cardinality(MarkerPos) = 3

\* C7: removing the markers from the output gives back exactly the input
\* sequence, for every input, sorted or not.
C7_RecordsPreserved ==
  Returned => SelectSeq(result, LAMBDA x : ~isMarker(x)) = dates

\* An unsorted input of three records with different payloads and two markers.
C7_Witness ==
  /\ Returned
  /\ ~Ascending
  /\ Len(dates) = 3
  /\ dates[1].data # dates[2].data
  /\ Cardinality(MarkerPos) >= 2

\* C8 as stated: Jan 1, Jan 2, Jan 3 of 2023 decorate into exactly 4 elements,
\* the 3 records followed by 1 marker at the last position, whose weekNumber is
\* the ISO week of Jan 1 2023.
C8_JanFirstToThird ==
  ( /\ Returned
    /\ Len(dates) = 3
    /\ dates[1].date = Jan1_2023
    /\ dates[2].date = Jan2_2023
    /\ dates[3].date = Jan3_2023 ) =>
      /\ Len(result) = 4
      /\ \A i \in 1..3 : result[i] = dates[i]
      /\ MarkerPos = {4}
      /\ result[4].weekNumber = getISOWeek(Jan1_2023)

\* C8 amended: Jan 1, Jan 2, Jan 3 of 2023 decorate into exactly 5 elements: the
\* Jan 1 record, a marker of week 52 (the ISO week of Sunday Jan 1 2023), the
\* Jan 2 and Jan 3 records, and a marker of week 1 at the last position.
C8_JanFirstToThirdTwoWeeks ==
  ( /\ Returned
    /\ Len(dates) = 3
    /\ dates[1].date = Jan1_2023
    /\ dates[2].date = Jan2_2023
    /\ dates[3].date = Jan3_2023 ) =>
      /\ Len(result) = 5
      /\ MarkerPos = {2, 5}
      /\ result[1] = dates[1]
      /\ result[2].weekNumber = getISOWeek(Jan1_2023)
      /\ result[2].weekNumber = 52
      /\ result[3] = dates[2]
      /\ result[4] = dates[3]
      /\ result[5].weekNumber = 1

\* Jan 1, Jan 2, Jan 3 of 2023 have been decorated.
C8_Witness ==
  /\ Returned
  /\ Len(dates) = 3
  /\ dates[1].date = Jan1_2023
  /\ dates[2].date = Jan2_2023
  /\ dates[3].date = Jan3_2023
  /\ Len(result) > 3

\* C9: where Dec 31 2023 is directly followed by Jan 1 2024, the first run is
\* closed by a week-52 marker before the Jan 1 record, and the Jan 1 run gets its
\* own week-1 marker; the two-record input gives record, marker(52), record,
\* marker(1).
C9_YearEndBoundary ==
  Returned =>
    \A i \in 1..(Len(dates) - 1) :
      (dates[i].date = Dec31_2023 /\ dates[i + 1].date = Jan1_2024) =>
        LET p == outIndex(i)
        IN  /\ Len(result) >= p + 3
            /\ result[p] = dates[i]
            /\ isMarker(result[p + 1])
            /\ result[p + 1].weekNumber = 52
            /\ result[p + 2] = dates[i + 1]
            /\ \E q \in MarkerPos :
                 /\ q > p + 2
                 /\ result[q].weekNumber = 1
                 /\ \A r \in (p + 2)..(q - 1) : ~isMarker(result[r])
            /\ Len(dates) = 2 =>
                 /\ Len(result) = 4
                 /\ isMarker(result[4])
                 /\ result[4].weekNumber = 1

\* The two-record input Dec 31 2023, Jan 1 2024 has been decorated.
C9_Witness ==
  /\ Returned
  /\ Len(dates) = 2
  /\ dates[1].date = Dec31_2023
  /\ dates[2].date = Jan1_2024
  /\ Len(result) = 4

\* C10: a one-record input gives exactly two elements, the record followed by one
\* marker equal to the object with exactly the fields isWeekNumberDecoration =
\* true, weekNumber = ISO week of the record's date, date = the record's date.
C10_SingleRecordMarkerFields ==
  (Returned /\ Len(dates) = 1) =>
    /\ Len(result) = 2
    /\ result[1] = dates[1]
    /\ result[2] = [ isWeekNumberDecoration |-> TRUE,
                     weekNumber             |-> getISOWeek(dates[1].date),
                     date                   |-> dates[1].date ]

\* C11: decorate on an empty input returns an empty sequence; no marker is
\* produced and no error is raised.
C11_EmptyInputEmptyOutput ==
  (Len(dates) = 0 /\ pc # "ready") =>
    /\ pc = "returned"
    /\ result = << >>

\* decorate has been called on the empty input.
C11_Witness ==
  /\ Len(dates) = 0
  /\ Returned

\* C12: decorate completes without raising an error on every finite sequence of
\* dated records, ascending or not; the collection of the current week's dates
\* is never empty when a marker is built.
C12_NeverThrows ==
  /\ pc # "threw"
  /\ (Returned /\ Len(dates) > 0) =>
       weekDatesFilled([ result      |-> << >>,
                         weekDates   |-> << >>,
                         currentWeek |-> getISOWeek(dates[1].date) ],
                       dates, 1)

\* An input that is not in ascending order has been decorated with three markers.
C12_Witness ==
  /\ Returned
  /\ ~Ascending
  /\ Len(dates) = 3
  /\ Cardinality(MarkerPos) = 3

\* C13: for all start <= end at day granularity, generate returns exactly
\* daysBetween(start, end) + 1 records; the first date is start, the last date
\* is on the day of end (and is end when both have the same time of day), and
\* each record is dated exactly one calendar day after the previous one; with
\* start and end on the same day it returns exactly one record.
C13_GenerateInclusiveRange ==
  (Returned /\ dayOf(startDate) <= dayOf(endDate)) =>
    /\ Len(result) = dayOf(endDate) - dayOf(startDate) + 1
    /\ result[1].date = startDate
    /\ dayOf(result[Len(result)].date) = dayOf(endDate)
    /\ (endDate - startOfDay(endDate) = startDate - startOfDay(startDate))
         => result[Len(result)].date = endDate
    /\ \A i \in 1..(Len(result) - 1) :
         /\ result[i].date < result[i + 1].date
         /\ dayOf(result[i + 1].date) = dayOf(result[i].date) + 1
    /\ dayOf(startDate) = dayOf(endDate) => Len(result) = 1

\* A range of at least three days, start and end at different times of day,
\* has been generated.
C13_Witness ==
  /\ Returned
  /\ dayOf(endDate) >= dayOf(startDate) + 2
  /\ endDate - startOfDay(endDate) # startDate - startOfDay(startDate)
  /\ Len(result) >= 3

\* C14: every record returned by generate is the value the factory returned for
\* that day's date: the factory is invoked exactly once per calendar day of the
\* range, in ascending date order, and its result is stored unchanged at the
\* matching position.
C14_FactoryOncePerDay ==
  Returned =>
    /\ Len(calls) = IF dayOf(startDate) <= dayOf(endDate)
                    THEN dayOf(endDate) - dayOf(startDate) + 1
                    ELSE 0
    /\ \A i \in 1..Len(calls) : dayOf(calls[i]) = dayOf(startDate) + i - 1
    /\ Len(result) = Len(calls)
    /\ \A i \in 1..Len(calls) : result[i] = applyFactory(dateFactory, calls[i])

\* The day-dependent factory has produced records with different payloads.
C14_Witness ==
  /\ Returned
  /\ dateFactory = "byDay"
  /\ Len(result) >= 3
  /\ \E i, j \in 1..Len(result) : result[i].data # result[j].data

\* C15: constructing a DateRange fails if and only if the day-normalized start
\* is strictly after the day-normalized end: a start at least one calendar day
\* after the end always fails; start = end and start < end always succeed, and
\* so does a start on the end's calendar day at a later time of day.
C15_ConstructFailsIffStartAfterEnd ==
  (pc # "ready") =>
    /\ pc \in {"threw", "constructed"}
    /\ pc = "threw" <=> startOfDay(args.start) > startOfDay(args.end)
    /\ dayOf(args.start) > dayOf(args.end) => pc = "threw"
    /\ args.start <= args.end => pc = "constructed"
    /\ dayOf(args.start) = dayOf(args.end) => pc = "constructed"

\* A range whose start is on the end's day, at a later time, was constructed.
C15_Witness ==
  /\ pc = "constructed"
  /\ dayOf(args.start) = dayOf(args.end)
  /\ args.start > args.end

\* C16 as stated: the failure raised by the constructor for an invalid range is
\* of the RangeError class.
C16_FailureIsRangeError ==
  (pc = "threw") => error.name = "RangeError"

\* C16 amended: the failure raised by the constructor for an invalid range is a
\* plain Error, the only error kind, whose message names the normalized start
\* as the greater and the normalized end as the lesser date.
C16_FailureIsPlainError ==
  (pc = "threw") =>
    /\ error.name = "Error"
    /\ error.greater = startOfDay(args.start)
    /\ error.lesser = startOfDay(args.end)

\* The constructor has failed on a start given with a time of day.
C16_Witness ==
  /\ pc = "threw"
  /\ args.start # startOfDay(args.start)
  /\ error.name = "Error"

\* The months of the year (0-based) present in the input.
InputMonths == { getMonth(dates[i].date) : i \in 1..Len(dates) }

\* The input records of one month of the year, in input order.
recordsOfMonth(month) ==
  SelectSeq(dates, LAMBDA r : getMonth(r.date) = month)

\* The total number of records held by the first n buckets of the result.
RECURSIVE dataTotal(_)
dataTotal(n) == IF n = 0 THEN 0 ELSE dataTotal(n - 1) + Len(result[n].data)

\* C17: for every input, in any order, group returns its buckets sorted strictly
\* ascending by month number 1..12, whatever the order in which the months are
\* first seen; the numbers are pairwise distinct and there are at most 12 buckets.
C17_BucketsSortedByNumber ==
  Returned =>
    /\ \A b \in 1..Len(result) : result[b].number \in 1..12
    /\ \A b \in 1..(Len(result) - 1) : result[b].number < result[b + 1].number
    /\ \A a, b \in 1..Len(result) : a # b => result[a].number # result[b].number
    /\ Len(result) <= 12

\* Three months first seen in descending order have been grouped.
C17_Witness ==
  /\ Returned
  /\ Len(dates) = 3
  /\ getMonth(dates[1].date) > getMonth(dates[2].date)
  /\ getMonth(dates[2].date) > getMonth(dates[3].date)
  /\ Len(result) = 3

\* C18: group keys buckets by month of the year only: records dated in the same
\* month of two different years are placed in one single bucket.
C18_YearIgnored ==
  Returned =>
    \A i, j \in 1..Len(dates) :
      getMonth(dates[i].date) = getMonth(dates[j].date) =>
        /\ Cardinality({ b \in 1..Len(result) :
                           result[b].number = getMonth(dates[i].date) + 1 }) = 1
        /\ \E b \in 1..Len(result) :
             /\ \E k \in 1..Len(result[b].data) : result[b].data[k] = dates[i]
             /\ \E k \in 1..Len(result[b].data) : result[b].data[k] = dates[j]

\* January 2023 and January 2024 have been grouped into one bucket.
C18_Witness ==
  /\ Returned
  /\ \E i, j \in 1..Len(dates) :
       /\ getMonth(dates[i].date) = 0
       /\ getMonth(dates[j].date) = 0
       /\ getFullYear(dates[i].date) # getFullYear(dates[j].date)
  /\ Len(result) = 1
  /\ result[1].title = "January"

\* C19: group is a stable partition: within every bucket the records keep the
\* relative order they had in the input, for every input order.
C19_StablePartition ==
  Returned =>
    \A b \in 1..Len(result) :
      result[b].data = recordsOfMonth(result[b].number - 1)

\* Two different records of one month, apart in the input, share a bucket.
C19_Witness ==
  /\ Returned
  /\ Len(dates) = 3
  /\ getMonth(dates[1].date) = getMonth(dates[3].date)
  /\ getMonth(dates[1].date) # getMonth(dates[2].date)
  /\ dates[1] # dates[3]
  /\ \E b \in 1..Len(result) : result[b].data = << dates[1], dates[3] >>

\* C20: group partitions its input exactly: there are as many buckets as
\* distinct months of the year in the input, every input record is in exactly
\* one bucket, the one numbered its month + 1, no bucket is empty and the bucket
\* lengths sum to the input length; empty input gives no bucket and
\* single-month input one bucket holding all records.
C20_ExactPartition ==
  Returned =>
    /\ Len(result) = Cardinality(InputMonths)
    /\ \A b \in 1..Len(result) :
         /\ Len(result[b].data) > 0
         /\ \A k \in 1..Len(result[b].data) :
              getMonth(result[b].data[k].date) + 1 = result[b].number
    /\ \A i \in 1..Len(dates) :
         \E b \in 1..Len(result) :
           /\ result[b].number = getMonth(dates[i].date) + 1
           /\ \E k \in 1..Len(result[b].data) : result[b].data[k] = dates[i]
    /\ dataTotal(Len(result)) = Len(dates)
    /\ Len(dates) = 0 => result = << >>
    /\ Cardinality(InputMonths) = 1 =>
         Len(result) = 1 /\ Len(result[1].data) = Len(dates)

\* An input of three records in two months has been grouped into two buckets.
C20_Witness ==
  /\ Returned
  /\ Len(dates) = 3
  /\ Cardinality(InputMonths) = 2
  /\ Len(result) = 2
  /\ dataTotal(2) = 3

\* ------------------------------------------------ claims on the pipeline

Feb28_2023 == NewDate(2023, 1, 28)

\* The last call made on the DateRange, or the caller's last change.
lastOp == IF Len(history) = 0 THEN "new" ELSE history[Len(history)]

\* The DateRange was constructed and no call has been made on it.
Fresh == Constructed /\ history = << >>

\* C21: a DateRange constructed for 1 Jan to 28 Feb 2023, after create with the
\* standard generator and group by month, has getDates() return exactly two
\* buckets, numbered 1 (January) and 2 (February) in that order, holding 31
\* and 28 records.
C21_JanFebTwoBuckets ==
  (/\ args = [start |-> Jan1_2023, end |-> Feb28_2023]
   /\ history = << "create", "group", "getDates" >>) =>
    /\ Len(result) = 2
    /\ result[1].number = 1 /\ result[1].title = "January"
    /\ result[2].number = 2 /\ result[2].title = "February"
    /\ Len(result[1].data) = 31
    /\ Len(result[2].data) = 28

\* The range 1 Jan to 28 Feb 2023 was created, grouped and read.
C21_Witness ==
  /\ args = [start |-> Jan1_2023, end |-> Feb28_2023]
  /\ history = << "create", "group", "getDates" >>
  /\ pc = "constructed"
  /\ Len(result) = 2
  /\ result[2].data[28].date = Feb28_2023

\* The output of the generator last handed to create over the day-normalized
\* constructor arguments.
generated == generate(dateFactory, startOfDay(args.start), startOfDay(args.end))

\* C22: from any state of a constructed DateRange, fresh or after any earlier
\* calls, create replaces the working sequence with exactly the generator's
\* output over the day-normalized [start, end], the previous contents
\* discarded; its first date is the normalized start and its last date the
\* normalized end, and a getDates() that follows returns that sequence.
C22_CreateReplaces ==
  /\ lastOp = "create" =>
       /\ dates = generated
       /\ Len(dates) >= 1
       /\ dates[1].date = startOfDay(args.start)
       /\ dates[Len(dates)].date = startOfDay(args.end)
  /\ (/\ Len(history) >= 2
      /\ history[Len(history) - 1] = "create"
      /\ lastOp = "getDates") => result = generated

\* create was called again on a DateRange that held a decorated and grouped
\* sequence, and left the generated days alone.
C22_Witness ==
  /\ history = << "create", "apply", "group", "create" >>
  /\ args.start # startOfDay(args.start)
  /\ Len(dates) = MaxSpan + 1
  /\ dates = generated

\* C23: in every state after a successful construction, through any sequence
\* of create, apply, group and getDates, the stored start is <= the stored
\* end and both equal the day-normalized constructor arguments.
C23_StartEndFixed ==
  Constructed =>
    /\ startDate <= endDate
    /\ startDate = startOfDay(args.start)
    /\ endDate = startOfDay(args.end)

\* create, apply, group and getDates have all been called on a range of more
\* than one day whose arguments carried a time of day.
C23_Witness ==
  /\ history = << "create", "apply", "group", "getDates" >>
  /\ startDate < endDate
  /\ args.start # startDate
  /\ args.end # endDate

\* Only apply, group and getDates have been called on the DateRange.
NoCreateYet ==
  /\ Constructed
  /\ \A i \in 1..Len(history) : history[i] \in {"apply", "group", "getDates"}

\* C24: on a freshly constructed DateRange the working sequence is empty, and
\* apply(WeekNumberDecorator) and group(MonthGroupingStrategy) called before
\* any create raise no error and leave getDates() returning an empty sequence.
C24_EmptyBeforeCreate ==
  /\ Fresh => dates = << >>
  /\ NoCreateYet =>
       /\ pc # "raised"
       /\ dates = << >>
       /\ lastOp = "getDates" => result = << >>

\* apply and group were both called on a fresh DateRange, and getDates has
\* then returned the empty sequence.
C24_Witness ==
  /\ NoCreateYet
  /\ \E i, j \in 1..Len(history) : history[i] = "apply" /\ history[j] = "group"
  /\ Len(history) = MaxOps
  /\ lastOp = "getDates"
  /\ result = << >>

\* The last n calls made, oldest first (no calls if fewer were made).
lastOps(n) ==
  IF Len(history) < n THEN << >>
  ELSE SubSeq(history, Len(history) - n + 1, Len(history))

\* The working sequence after create and apply: the generated days decorated.
decorated == decorate(generated)

\* C25: when the output of decorate is passed to group (create, apply, group),
\* every week marker lands in the bucket of the month of its date, the bucket
\* of the last record of its run, immediately after that record, also when
\* earlier records of the run are in the bucket of another month.
C25_MarkerFollowsItsRecord ==
  (lastOps(3) = << "create", "apply", "group" >> /\ pc = "constructed") =>
    LET dec == decorated
    IN  \A p \in 1..Len(dec) :
          isMarker(dec[p]) =>
            /\ p > 1
            /\ ~isMarker(dec[p - 1])
            /\ dec[p - 1].date = dec[p].date
            /\ \E b \in 1..Len(dates) :
                 /\ dates[b].number = getMonth(dec[p].date) + 1
                 /\ \E k \in 2..Len(dates[b].data) :
                      /\ dates[b].data[k] = dec[p]
                      /\ dates[b].data[k - 1] = dec[p - 1]
            /\ Cardinality({ b \in 1..Len(dates) :
                               \E k \in 1..Len(dates[b].data) :
                                 dates[b].data[k] = dec[p] }) = 1

\* The marker of a week whose records lie in September and October is in the
\* October bucket, right after 1 October.
C25_Witness ==
  /\ lastOps(3) = << "create", "apply", "group" >>
  /\ pc = "constructed"
  /\ Len(dates) = 2
  /\ dates[1].number = 9
  /\ \A k \in 1..Len(dates[1].data) : ~isMarker(dates[1].data[k])
  /\ Len(dates[2].data) >= 2
  /\ dates[2].data[1].date = NewDate(2023, 9, 1)
  /\ isMarker(dates[2].data[2])
  /\ dates[2].data[2].isMultiMonth

\* C26: the working sequence is not exposed for external mutation: getDates()
\* does not change the state of the pipeline, and a caller that appends to or
\* removes from the sequence it received from getDates() changes neither what
\* a later getDates() returns nor what a later apply or group operates on,
\* that is, the working sequence stays as it was.
C26_NotExposed ==
  [][ /\ DateRangeGetDates =>
           UNCHANGED << dates, startDate, endDate, dateFactory, calls >>
      /\ (CallerPush \/ CallerPop) => UNCHANGED dates ]_vars

\* --------------------------------------- further claims on decorate, generate

\* The first input position of the week run that ends at input position i.
runStart(i) ==
  CHOOSE j \in 1..i :
    /\ j = 1 \/ RunEnd(j - 1)
    /\ \A k \in j..(i - 1) : ~RunEnd(k)

\* The calendar month of a date: its month of its year.
calendarMonth(date) == getFullYear(date) * 12 + getMonth(date)

\* C27 as stated: a marker's isMultiMonth is true if and only if the records
\* of its run fall in more than one calendar month.
C27_MultiMonthIffCalendarMonths ==
  Returned =>
    \A p \in MarkerPos :
      LET i == recordsUpTo(p)
      IN  result[p].isMultiMonth <=>
            Cardinality({ calendarMonth(dates[k].date) : k \in runStart(i)..i }) > 1

\* C27 amended: a marker's isMultiMonth is true if and only if some record of
\* its run differs from the run's last record in its month of the year, the
\* year ignored; it is false for every single-record run, the first or a later
\* one, and for a week that crosses a month boundary on the calendar while its
\* present records lie in one month.
C27_MultiMonthIffMonthsOfYear ==
  Returned =>
    \A p \in MarkerPos :
      LET i == recordsUpTo(p)
      IN  /\ i >= 1 /\ RunEnd(i)
          /\ result[p].isMultiMonth <=>
               \E k \in runStart(i)..i :
                 getMonth(dates[k].date) # getMonth(dates[i].date)
          /\ runStart(i) = i => ~result[p].isMultiMonth
          /\ (/\ getMonth(startOfISOWeek(dates[i].date))
                    # getMonth(endOfISOWeek(dates[i].date))
              /\ \A k \in runStart(i)..i :
                   calendarMonth(dates[k].date) = calendarMonth(dates[i].date))
               => ~result[p].isMultiMonth

\* The run of 30 Nov and 1 Dec 2023 is flagged, the single-record run after it
\* is not.
C27_Witness ==
  /\ Returned
  /\ Len(dates) = 3
  /\ dates[1].date = NewDate(2023, 10, 30)
  /\ dates[2].date = NewDate(2023, 11, 1)
  /\ dates[3].date = NewDate(2023, 11, 25)
  /\ Len(result) = 5
  /\ result[3].isMultiMonth
  /\ ~result[5].isMultiMonth

\* The input position that ends the week run input position i lies in.
runEndOf(i) == CHOOSE e \in i..Len(dates) : RunEnd(e) /\ \A k \in i..(e - 1) : ~RunEnd(k)

\* C28: decorate identifies a week by its ISO week number alone: two adjacent
\* input records of equal ISO week number are in one run with no marker
\* between them, also when they lie in different ISO years, and share the one
\* marker of that run, which carries their week number and is dated at the
\* run's last record (the later record, when the run ends with it).
C28_WeekNumberAlone ==
  Returned =>
    \A i \in 1..(Len(dates) - 1) :
      getISOWeek(dates[i].date) = getISOWeek(dates[i + 1].date) =>
        LET e == runEndOf(i + 1)
            m == outIndex(e) + 1
        IN  /\ outIndex(i + 1) = outIndex(i) + 1
            /\ result[outIndex(i)] = dates[i]
            /\ result[outIndex(i + 1)] = dates[i + 1]
            /\ \A q \in outIndex(i)..outIndex(e) : ~isMarker(result[q])
            /\ m <= Len(result)
            /\ isMarker(result[m])
            /\ result[m].weekNumber = getISOWeek(dates[i].date)
            /\ result[m].date = dates[e].date
            /\ e = i + 1 => result[m].date = dates[i + 1].date

\* Sunday 1 Jan 2023 (week 52 of ISO year 2022) directly followed by a day of
\* week 52 of ISO year 2023: two records, then their one marker.
C28_Witness ==
  /\ Returned
  /\ Len(dates) = 2
  /\ dates[1].date = Jan1_2023
  /\ dates[2].date \in {NewDate(2023, 11, 25), Dec31_2023}
  /\ getISOWeekYear(dates[1].date) # getISOWeekYear(dates[2].date)
  /\ Len(result) = 3
  /\ ~isMarker(result[2])
  /\ result[3].weekNumber = 52
  /\ result[3].date = dates[2].date

\* C29: generate does not itself enforce start <= end: called with a start at
\* least one calendar day after the end it raises no error, never invokes the
\* factory and returns an empty sequence.
C29_GenerateReversedRange ==
  (pc # "ready" /\ dayOf(startDate) > dayOf(endDate)) =>
    /\ pc = "returned"
    /\ result = << >>
    /\ calls = << >>

\* generate has returned from a call with a start two or more days after the end.
C29_Witness ==
  /\ Returned
  /\ dayOf(startDate) > dayOf(endDate) + 1
  /\ result = << >>
  /\ calls = << >>

====
